---- MODULE Spec2Model ----
(***************************************************************************)
(* Model of the VIRGIL backend: the rule engine and remote derivation of   *)
(* brain.py (think) and the persistence facade and chat handler of main.py *)
(* (log_event, memory_add, memory_fetch, get_alerts, get_alerts_count,     *)
(* get_logs, chat).                                                        *)
(*                                                                         *)
(* Text values are sequences of string chunks.  A user message is a        *)
(* sequence of one-character chunks, so that strip(), lower(), "in" and    *)
(* endswith() are computed character by character; the fixed reply texts   *)
(* of the program are kept as a single chunk.                              *)
(***************************************************************************)
EXTENDS Integers, Sequences, FiniteSets, Bags, TLC

VARIABLES
    user_message,   \* SpecThink: the text handed to think
    decision,       \* SpecThink: what the last think call returned
    think_in,       \* SpecThink: which think ran, with which capability and remote outcome
    config,         \* what is fixed when the modules are imported: USE_DB,
                    \* whether brain was imported, USE_OPENAI, the API key
    logs_mem,       \* main.logs_mem
    alerts_mem,     \* main.alerts_mem
    memory_mem,     \* main.memory_mem
    db_logs,        \* committed rows of table logs, in id order
    db_alerts,      \* committed rows of table alerts, in id order
    db_memory,      \* committed rows of table memory, in id order
    db_tables,      \* the tables that exist in the database
    open_conns,     \* database connections opened and not closed
    clock,          \* datetime.now(): one tick per call
    chats,          \* number of requests to /chat so far
    last,           \* history variable: the last call, its inputs and its outcome
    requested,      \* history variable: the entries the write calls were asked to store
    reqs            \* SpecConc: the /chat requests running in worker threads, each
                    \* with its position in chat and its local variables

think_vars == <<user_message, decision, think_in>>

store_vars == <<logs_mem, alerts_mem, memory_mem, db_logs, db_alerts, db_memory,
                db_tables, open_conns>>

main_vars == <<config, store_vars, clock, chats, last, requested, reqs>>

vars == <<think_vars, main_vars>>

-----------------------------------------------------------------------------
(* Bounds *)

MaxTokens == 3

MaxOps == 3

MaxChats == 2

\* SpecMem: the first MemWarmup calls of memory_add store numbered turns,
\* the calls after them up to MaxAdds store any role and content
MemWarmup == 48

MaxAdds == 53

\* SpecConc: calls of memory_add made before the concurrent requests arrive
ConcWarmup == 50

-----------------------------------------------------------------------------
(* Python str helpers: strip(), lower(), "in", endswith() *)

Whitespace == {" ", "\t", "\n", "\r", "\f"}

UpperCase == <<"A","B","C","D","E","F","G","H","I","J","K","L","M",
               "N","O","P","Q","R","S","T","U","V","W","X","Y","Z",
               "À","Ç","É","Ô">>

LowerCase == <<"a","b","c","d","e","f","g","h","i","j","k","l","m",
               "n","o","p","q","r","s","t","u","v","w","x","y","z",
               "à","ç","é","ô">>

LowerChar(c) ==
    IF \E i \in 1..Len(UpperCase) : UpperCase[i] = c
    THEN LowerCase[CHOOSE i \in 1..Len(UpperCase) : UpperCase[i] = c]
    ELSE c

lower(s) == [i \in 1..Len(s) |-> LowerChar(s[i])]

RECURSIVE lstrip(_)
lstrip(s) ==
    IF s # <<>> /\ Head(s) \in Whitespace THEN lstrip(Tail(s)) ELSE s

RECURSIVE rstrip(_)
rstrip(s) ==
    IF s # <<>> /\ s[Len(s)] \in Whitespace
    THEN rstrip(SubSeq(s, 1, Len(s) - 1))
    ELSE s

strip(s) == rstrip(lstrip(s))

\* Python `t in s` on strings: t occurs as a contiguous substring of s
Contains(s, t) ==
    \E i \in 1..(Len(s) - Len(t) + 1) : SubSeq(s, i, i + Len(t) - 1) = t

endswith(s, t) ==
    Len(s) >= Len(t) /\ SubSeq(s, Len(s) - Len(t) + 1, Len(s)) = t

\* m = (user_message or "").strip().lower()
Fold(msg) == lower(strip(msg))

-----------------------------------------------------------------------------
(* The lexicons of the rule engine *)

T_mineur   == <<"m","i","n","e","u","r">>
T_sex      == <<"s","e","x">>
T_sexe     == <<"s","e","x","e">>
T_explicit == <<"e","x","p","l","i","c","i","t">>
T_qq       == <<"?","?">>
T_qbang    == <<"?","!">>
T_q        == <<"?">>

Greetings ==
    { <<"b","o","n","j","o","u","r">>,
      <<"s","a","l","u","t">>,
      <<"c","o","u","c","o","u">>,
      <<"h","e","l","l","o">>,
      <<"b","o","n","s","o","i","r">> }

WellBeing ==
    { <<"c","o","m","m","e","n","t"," ","ç","a"," ","v","a">>,
      <<"c","o","m","m","e","n","t"," ","c","a"," ","v","a">>,
      <<"ç","a"," ","v","a"," ","?">>,
      <<"c","a"," ","v","a"," ","?">>,
      <<"t","u"," ","v","a","s"," ","b","i","e","n">>,
      <<"v","o","u","s"," ","a","l","l","e","z"," ","b","i","e","n">> }

Thanks ==
    { <<"m","e","r","c","i">>,
      <<"t","h","a","n","k"," ","y","o","u">>,
      <<"t","h","a","n","k","s">> }

Farewells ==
    { <<"a","u"," ","r","e","v","o","i","r">>,
      <<"b","y","e">>,
      <<"à"," ","b","i","e","n","t","ô","t">>,
      <<"c","i","a","o">> }

\* any(term in m for term in lexicon)
AnyIn(lexicon, m) == \E t \in lexicon : Contains(m, t)

\* "mineur" in m and ("sex" in m or "sexe" in m or "explicit" in m)
MinorSexual(m) ==
    Contains(m, T_mineur)
    /\ (Contains(m, T_sex) \/ Contains(m, T_sexe) \/ Contains(m, T_explicit))

\* "??" in m or "?!" in m
Insistent(m) == Contains(m, T_qq) \/ Contains(m, T_qbang)

-----------------------------------------------------------------------------
(* Reply texts and moods *)

R_COMPRIS  == <<"Compris.">>
R_REFUS    == <<"Désolé, sujet refusé. Incident consigné.">>
R_INSIST   == <<"Demande insistante détectée.">>
R_BONJOUR  == <<"Bonjour ! Comment puis-je vous aider ?">>
R_CAVA     == <<"Je vais bien, merci ! Et toi ?">>
R_PLAISIR  == <<"Avec plaisir !">>
R_AUREVOIR == <<"Au revoir et à bientôt !">>
R_CONCIS   == <<"Voici une réponse concise.">>

Moods == {"idle", "analyze", "good", "bad", "notice", "alert", "done"}

-----------------------------------------------------------------------------
(* JSON values as json.loads returns them, with Python's str() and bool() *)

JNull    == [t |-> "null", b |-> FALSE, s |-> "", n |-> 0, l |-> <<>>]
JBool(x) == [t |-> "bool", b |-> x,     s |-> "", n |-> 0, l |-> <<>>]
JStr(x)  == [t |-> "str",  b |-> FALSE, s |-> x,  n |-> 0, l |-> <<>>]
JNum(x)  == [t |-> "num",  b |-> FALSE, s |-> "", n |-> x, l |-> <<>>]
JList(x) == [t |-> "list", b |-> FALSE, s |-> "", n |-> 0, l |-> x]

\* a key that the payload object does not have
Missing  == [t |-> "missing", b |-> FALSE, s |-> "", n |-> 0, l |-> <<>>]

\* str(v)
PyStr(v) ==
    CASE v.t = "str"  -> v.s
      [] v.t = "null" -> "None"
      [] v.t = "bool" -> IF v.b THEN "True" ELSE "False"
      [] v.t = "num"  -> ToString(v.n)
      [] v.t = "list" -> IF v.l = <<>> THEN "[]" ELSE "[{...}]"

\* bool(v)
PyBool(v) ==
    CASE v.t = "str"  -> v.s # ""
      [] v.t = "null" -> FALSE
      [] v.t = "bool" -> v.b
      [] v.t = "num"  -> v.n # 0
      [] v.t = "list" -> v.l # <<>>

\* data.get(key, default) on a payload object
Get(data, key, default) ==
    IF data[key] = Missing THEN default ELSE data[key]

-----------------------------------------------------------------------------
(* brain.py: think *)

NoSources == JList(<<>>)

Decision(reply, mood, alert, spark, sources) ==
    [reply |-> reply, mood |-> mood, alert |-> alert, spark |-> spark,
     sources |-> sources]

\* SinglePass with the question rule testing "?" in m instead of m.endswith("?")
SinglePass_QuestionAnywhere(msg) ==
    LET m == Fold(msg) IN
    IF MinorSexual(m) THEN Decision(R_REFUS, "alert", TRUE, FALSE, NoSources)
    ELSE IF Insistent(m) THEN Decision(R_INSIST, "notice", TRUE, TRUE, NoSources)
    ELSE IF AnyIn(Greetings, m) THEN Decision(R_BONJOUR, "good", FALSE, FALSE, NoSources)
    ELSE IF AnyIn(WellBeing, m) THEN Decision(R_CAVA, "good", FALSE, FALSE, NoSources)
    ELSE IF AnyIn(Thanks, m) THEN Decision(R_PLAISIR, "good", FALSE, FALSE, NoSources)
    ELSE IF AnyIn(Farewells, m) THEN Decision(R_AUREVOIR, "good", FALSE, FALSE, NoSources)
    ELSE IF Contains(m, T_q) THEN Decision(R_CONCIS, "analyze", FALSE, TRUE, NoSources)
    ELSE Decision(R_COMPRIS, "good", FALSE, FALSE, NoSources)

\* SinglePass with the greeting rule tested before the insistent-punctuation rule
SinglePass_GreetingFirst(msg) ==
    LET m == Fold(msg) IN
    IF MinorSexual(m) THEN Decision(R_REFUS, "alert", TRUE, FALSE, NoSources)
    ELSE IF AnyIn(Greetings, m) THEN Decision(R_BONJOUR, "good", FALSE, FALSE, NoSources)
    ELSE IF Insistent(m) THEN Decision(R_INSIST, "notice", TRUE, TRUE, NoSources)
    ELSE IF AnyIn(WellBeing, m) THEN Decision(R_CAVA, "good", FALSE, FALSE, NoSources)
    ELSE IF AnyIn(Thanks, m) THEN Decision(R_PLAISIR, "good", FALSE, FALSE, NoSources)
    ELSE IF AnyIn(Farewells, m) THEN Decision(R_AUREVOIR, "good", FALSE, FALSE, NoSources)
    ELSE IF endswith(m, T_q) THEN Decision(R_CONCIS, "analyze", FALSE, TRUE, NoSources)
    ELSE Decision(R_COMPRIS, "good", FALSE, FALSE, NoSources)

\* the rule engine used when no remote capability is configured:
\* one if/elif chain, the first matching rule wins
SinglePass(msg) ==
    LET m == Fold(msg) IN
    IF MinorSexual(m) THEN Decision(R_REFUS, "alert", TRUE, FALSE, NoSources)
    ELSE IF Insistent(m) THEN Decision(R_INSIST, "notice", TRUE, TRUE, NoSources)
    ELSE IF AnyIn(Greetings, m) THEN Decision(R_BONJOUR, "good", FALSE, FALSE, NoSources)
    ELSE IF AnyIn(WellBeing, m) THEN Decision(R_CAVA, "good", FALSE, FALSE, NoSources)
    ELSE IF AnyIn(Thanks, m) THEN Decision(R_PLAISIR, "good", FALSE, FALSE, NoSources)
    ELSE IF AnyIn(Farewells, m) THEN Decision(R_AUREVOIR, "good", FALSE, FALSE, NoSources)
    ELSE IF endswith(m, T_q) THEN Decision(R_CONCIS, "analyze", FALSE, TRUE, NoSources)
    ELSE Decision(R_COMPRIS, "good", FALSE, FALSE, NoSources)

\* TwoPass with the minor/sexual test made before the insistent-punctuation test
TwoPass_RefusalBeforeInsistent(msg) ==
    LET m  == Fold(msg)
        d0 == Decision(R_COMPRIS, "good", FALSE, FALSE, NoSources)
        d1 == IF endswith(m, T_q)
              THEN [d0 EXCEPT !.reply = R_CONCIS, !.mood = "analyze", !.spark = TRUE]
              ELSE d0
        d2 == IF MinorSexual(m)
              THEN [d1 EXCEPT !.reply = R_REFUS, !.mood = "alert", !.alert = TRUE]
              ELSE d1
        d3 == IF Insistent(m)
              THEN [d2 EXCEPT !.reply = R_INSIST, !.mood = "notice",
                              !.alert = TRUE, !.spark = TRUE]
              ELSE d2
    IN d3

\* TwoPass without the first if, the one on a final "?"
TwoPass_NoQuestion(msg) ==
    LET m  == Fold(msg)
        d1 == Decision(R_COMPRIS, "good", FALSE, FALSE, NoSources)
        d2 == IF Insistent(m)
              THEN [d1 EXCEPT !.reply = R_INSIST, !.mood = "notice",
                              !.alert = TRUE, !.spark = TRUE]
              ELSE d1
        d3 == IF MinorSexual(m)
              THEN [d2 EXCEPT !.reply = R_REFUS, !.mood = "alert", !.alert = TRUE]
              ELSE d2
    IN d3

\* the rules of the except branch: three independent ifs, each overriding
\* the fields it assigns
TwoPass(msg) ==
    LET m  == Fold(msg)
        d0 == Decision(R_COMPRIS, "good", FALSE, FALSE, NoSources)
        d1 == IF endswith(m, T_q)
              THEN [d0 EXCEPT !.reply = R_CONCIS, !.mood = "analyze", !.spark = TRUE]
              ELSE d0
        d2 == IF Insistent(m)
              THEN [d1 EXCEPT !.reply = R_INSIST, !.mood = "notice",
                              !.alert = TRUE, !.spark = TRUE]
              ELSE d1
        d3 == IF MinorSexual(m)
              THEN [d2 EXCEPT !.reply = R_REFUS, !.mood = "alert", !.alert = TRUE]
              ELSE d2
    IN d3

\* Normalize without the final check of mood against the seven values
Normalize_NoMoodCheck(data) ==
    LET reply   == <<PyStr(Get(data, "reply", JStr("Compris.")))>>
        mood    == PyStr(Get(data, "mood", JStr("done")))
        alert   == PyBool(Get(data, "alert", JBool(FALSE)))
        spark   == PyBool(Get(data, "spark", JBool(mood \in {"analyze", "notice"})))
        got     == Get(data, "sources", NoSources)
        sources == IF PyBool(got) THEN got ELSE NoSources
    IN Decision(reply, mood, alert, spark, sources)

\* Normalize deriving spark from mood even when the payload gives spark
Normalize_SparkFromMood(data) ==
    LET reply   == <<PyStr(Get(data, "reply", JStr("Compris.")))>>
        mood    == PyStr(Get(data, "mood", JStr("done")))
        alert   == PyBool(Get(data, "alert", JBool(FALSE)))
        spark   == mood \in {"analyze", "notice"}
        got     == Get(data, "sources", NoSources)
        sources == IF PyBool(got) THEN got ELSE NoSources
    IN Decision(reply, IF mood \in Moods THEN mood ELSE "done", alert, spark, sources)

\* Normalize without the "or []" on sources
Normalize_SourcesAsGiven(data) ==
    LET reply   == <<PyStr(Get(data, "reply", JStr("Compris.")))>>
        mood    == PyStr(Get(data, "mood", JStr("done")))
        alert   == PyBool(Get(data, "alert", JBool(FALSE)))
        spark   == PyBool(Get(data, "spark", JBool(mood \in {"analyze", "notice"})))
        sources == Get(data, "sources", NoSources)
    IN Decision(reply, IF mood \in Moods THEN mood ELSE "done", alert, spark, sources)

\* the fields read from the parsed payload, and the mood normalisation
Normalize(data) ==
    LET reply   == <<PyStr(Get(data, "reply", JStr("Compris.")))>>
        mood    == PyStr(Get(data, "mood", JStr("done")))
        alert   == PyBool(Get(data, "alert", JBool(FALSE)))
        spark   == PyBool(Get(data, "spark", JBool(mood \in {"analyze", "notice"})))
        got     == Get(data, "sources", NoSources)
        sources == IF PyBool(got) THEN got ELSE NoSources
    IN Decision(reply, IF mood \in Moods THEN mood ELSE "done", alert, spark, sources)

\* outcomes of the remote call and of parsing its content
\*   raise      : client.chat.completions.create raises
\*   not_json   : json.loads(content) raises
\*   not_object : the content is JSON but not an object, data.get raises
\*   object     : the content is a JSON object
EmptyObject ==
    [reply |-> Missing, mood |-> Missing, alert |-> Missing, spark |-> Missing,
     sources |-> Missing]

RemoteRaise     == [kind |-> "raise",      data |-> EmptyObject]
RemoteNotJson   == [kind |-> "not_json",   data |-> EmptyObject]
RemoteNotObject == [kind |-> "not_object", data |-> EmptyObject]
RemoteObject(d) == [kind |-> "object",     data |-> d]

think(msg, history, USE_OPENAI, api_key, remote) ==
    IF ~USE_OPENAI \/ ~api_key
    THEN SinglePass(msg)
    ELSE IF remote.kind = "object"
         THEN Normalize(remote.data)
         ELSE TwoPass(msg)

\* main_think without its third if
main_think_NoRefusal(msg, history) ==
    LET m  == Fold(msg)
        d0 == Decision(R_COMPRIS, "good", FALSE, FALSE, NoSources)
        d1 == IF endswith(m, T_q)
              THEN [d0 EXCEPT !.reply = R_CONCIS, !.mood = "analyze", !.spark = TRUE]
              ELSE d0
        d2 == IF Contains(m, T_qq) \/ Contains(m, T_qbang)
              THEN [d1 EXCEPT !.reply = R_INSIST, !.mood = "notice",
                              !.alert = TRUE, !.spark = TRUE]
              ELSE d1
    IN d2

\* main.py: the think defined when `from brain import think` fails
main_think(msg, history) ==
    LET m  == Fold(msg)
        d0 == Decision(R_COMPRIS, "good", FALSE, FALSE, NoSources)
        d1 == IF endswith(m, T_q)
              THEN [d0 EXCEPT !.reply = R_CONCIS, !.mood = "analyze", !.spark = TRUE]
              ELSE d0
        d2 == IF Contains(m, T_qq) \/ Contains(m, T_qbang)
              THEN [d1 EXCEPT !.reply = R_INSIST, !.mood = "notice",
                              !.alert = TRUE, !.spark = TRUE]
              ELSE d1
        d3 == IF Contains(m, T_mineur)
                 /\ (Contains(m, T_sex) \/ Contains(m, T_sexe) \/ Contains(m, T_explicit))
              THEN [d2 EXCEPT !.reply = R_REFUS, !.mood = "alert", !.alert = TRUE]
              ELSE d2
    IN d3

-----------------------------------------------------------------------------
(* main.py: the stores *)

\* The operations take and return the store as one record st:
\*   logs_mem, alerts_mem, memory_mem : the module-level lists
\*   db_logs, db_alerts, db_memory    : the committed rows of the tables, by id
\*   db_tables                        : the tables that exist
\*   open_conns                       : connections opened and not closed

\* Limit to 50 messages
MEMORY_CAP == 50

\* What the database does during one call:
\*   probe : whether the connection of db_ok succeeds
\*   fail  : where the operation's own connection fails, if anywhere
WriteFails == {"none", "connect", "schema", "insert", "commit"}
ReadFails  == {"none", "connect", "select"}

DbDown == [probe |-> FALSE, fail |-> "none"]

WriteEnvs == {DbDown} \cup { [probe |-> TRUE, fail |-> f] : f \in WriteFails }
ReadEnvs  == {DbDown} \cup { [probe |-> TRUE, fail |-> f] : f \in ReadFails }

Reverse(s) == [i \in 1..Len(s) |-> s[Len(s) + 1 - i]]

\* the Python slice s[-limit:]
PyLast(s, limit) ==
    IF limit = 0 THEN s
    ELSE IF limit > 0
         THEN IF limit >= Len(s) THEN s
              ELSE SubSeq(s, Len(s) - limit + 1, Len(s))
         ELSE IF -limit >= Len(s) THEN <<>>
              ELSE SubSeq(s, 1 - limit, Len(s))

\* SELECT ... ORDER BY id DESC LIMIT limit, for limit >= 0
DescLimit(rows, limit) ==
    LET desc == Reverse(rows)
    IN IF limit >= Len(desc) THEN desc ELSE SubSeq(desc, 1, limit)

\* results of the operations
Returned(st, served, attempt, rows, count) ==
    [st |-> st, raised |-> FALSE, served |-> served, attempt |-> attempt,
     rows |-> rows, count |-> count]

Raised(st) ==
    [st |-> st, raised |-> TRUE, served |-> "none", attempt |-> "raised",
     rows |-> <<>>, count |-> 0]

\* get_conn() succeeded: one more open connection
Connected(st) == [st EXCEPT !.open_conns = @ + 1]

\* con.close()
Closed(st) == [st EXCEPT !.open_conns = @ - 1]

db_ok(USE_DB, env) == USE_DB /\ env.probe

\* log_event_local appending to alerts_mem whatever alert is
log_event_local_AlwaysAlert(st, ts, msg, reply, mood, alert, refused) ==
    LET entry == [ts |-> ts, mood |-> mood, message |-> msg, reply |-> reply,
                  alert |-> alert, refused |-> refused]
        logged == [st EXCEPT !.logs_mem = Append(@, entry)]
    IN [logged EXCEPT !.alerts_mem =
            Append(@, [ts |-> ts, mood |-> mood, message |-> msg])]

log_event_local(st, ts, msg, reply, mood, alert, refused) ==
    LET entry == [ts |-> ts, mood |-> mood, message |-> msg, reply |-> reply,
                  alert |-> alert, refused |-> refused]
        logged == [st EXCEPT !.logs_mem = Append(@, entry)]
    IN IF alert
       THEN [logged EXCEPT !.alerts_mem =
                Append(@, [ts |-> ts, mood |-> mood, message |-> msg])]
       ELSE logged

\* The statements run in one transaction: nothing is visible in the tables
\* unless con.commit() succeeds.  When a statement or the commit raises,
\* the function is left without con.close().
log_event_db(st, ts, msg, reply, mood, alert, refused, fail) ==
    IF fail = "connect" THEN Raised(st)
    ELSE LET con == Connected(st) IN
         IF fail \in {"schema", "insert", "commit"} THEN Raised(con)
         ELSE LET row == [ts |-> ts, mood |-> mood, message |-> msg,
                          reply |-> reply, alert |-> alert, refused |-> refused]
                  committed ==
                      [con EXCEPT
                         !.db_tables = @ \cup {"logs", "alerts"},
                         !.db_logs   = Append(@, row),
                         !.db_alerts = IF alert
                                       THEN Append(@, [ts |-> ts, mood |-> mood,
                                                       message |-> msg])
                                       ELSE @]
              IN Returned(Closed(committed), "durable", "ok", <<>>, 0)

\* log_event whose except branch returns instead of falling through to
\* log_event_local
log_event_NoFallback(st, USE_DB, ts, msg, reply, mood, alert, refused, env) ==
    IF db_ok(USE_DB, env)
    THEN LET r == log_event_db(st, ts, msg, reply, mood, alert, refused, env.fail)
         IN IF ~r.raised THEN r
            ELSE Returned(r.st, "volatile", "raised", <<>>, 0)
    ELSE Returned(log_event_local(st, ts, msg, reply, mood, alert, refused),
                  "volatile", "none", <<>>, 0)

log_event(st, USE_DB, ts, msg, reply, mood, alert, refused, env) ==
    IF db_ok(USE_DB, env)
    THEN LET r == log_event_db(st, ts, msg, reply, mood, alert, refused, env.fail)
         IN IF ~r.raised THEN r
            ELSE Returned(log_event_local(r.st, ts, msg, reply, mood, alert, refused),
                          "volatile", "raised", <<>>, 0)
    ELSE Returned(log_event_local(st, ts, msg, reply, mood, alert, refused),
                  "volatile", "none", <<>>, 0)

\* memory_add with memory_mem.pop() instead of memory_mem.pop(0)
memory_add_PopLast(st, USE_DB, ts, role, content, env) ==
    IF ~db_ok(USE_DB, env)
    THEN LET appended == Append(st.memory_mem, [role |-> role, content |-> content])
             kept     == IF Len(appended) > MEMORY_CAP
                         THEN SubSeq(appended, 1, Len(appended) - 1)
                         ELSE appended
         IN Returned([st EXCEPT !.memory_mem = kept], "volatile", "none", <<>>, 0)
    ELSE IF env.fail = "connect" THEN Raised(st)
    ELSE LET con == Connected(st) IN
         IF env.fail \in {"schema", "insert", "commit"} THEN Raised(con)
         ELSE LET committed ==
                      [con EXCEPT
                         !.db_tables = @ \cup {"memory"},
                         !.db_memory = Append(@, [ts |-> ts, role |-> role,
                                                  content |-> content])]
              IN Returned(Closed(committed), "durable", "ok", <<>>, 0)

memory_add(st, USE_DB, ts, role, content, env) ==
    IF ~db_ok(USE_DB, env)
    THEN LET appended == Append(st.memory_mem, [role |-> role, content |-> content])
             kept     == IF Len(appended) > MEMORY_CAP THEN Tail(appended) ELSE appended
         IN Returned([st EXCEPT !.memory_mem = kept], "volatile", "none", <<>>, 0)
    ELSE IF env.fail = "connect" THEN Raised(st)
    ELSE LET con == Connected(st) IN
         IF env.fail \in {"schema", "insert", "commit"} THEN Raised(con)
         ELSE LET committed ==
                      [con EXCEPT
                         !.db_tables = @ \cup {"memory"},
                         !.db_memory = Append(@, [ts |-> ts, role |-> role,
                                                  content |-> content])]
              IN Returned(Closed(committed), "durable", "ok", <<>>, 0)

memory_fetch(st, USE_DB, limit, env) ==
    IF ~db_ok(USE_DB, env)
    THEN Returned(st, "volatile", "none", PyLast(st.memory_mem, limit), 0)
    ELSE IF env.fail = "connect" THEN Raised(st)
    ELSE LET con == Connected(st) IN
         IF env.fail = "select" \/ "memory" \notin con.db_tables \/ limit < 0
         THEN Raised(con)
         ELSE LET rows == DescLimit(con.db_memory, limit)
                  turns == [i \in 1..Len(rows) |->
                               [role |-> rows[i].role, content |-> rows[i].content]]
              IN Returned(Closed(con), "durable", "ok", Reverse(turns), 0)

get_alerts(st, USE_DB, limit, env) ==
    LET attempt ==
            IF env.fail = "connect" THEN Raised(st)
            ELSE LET con == Connected(st) IN
                 IF env.fail = "select" \/ "alerts" \notin con.db_tables \/ limit < 0
                 THEN Raised(con)
                 ELSE Returned(Closed(con), "durable", "ok",
                               DescLimit(con.db_alerts, limit), 0)
    IN IF db_ok(USE_DB, env) /\ ~attempt.raised THEN attempt
       ELSE LET st1 == IF db_ok(USE_DB, env) THEN attempt.st ELSE st
            IN Returned(st1, "volatile",
                        IF db_ok(USE_DB, env) THEN "raised" ELSE "none",
                        Reverse(PyLast(st1.alerts_mem, limit)), 0)

get_alerts_count(st, USE_DB, env) ==
    LET attempt ==
            IF env.fail = "connect" THEN Raised(st)
            ELSE LET con == Connected(st) IN
                 IF env.fail = "select" \/ "alerts" \notin con.db_tables
                 THEN Raised(con)
                 ELSE Returned(Closed(con), "durable", "ok", <<>>, Len(con.db_alerts))
    IN IF db_ok(USE_DB, env) /\ ~attempt.raised THEN attempt
       ELSE LET st1 == IF db_ok(USE_DB, env) THEN attempt.st ELSE st
            IN Returned(st1, "volatile",
                        IF db_ok(USE_DB, env) THEN "raised" ELSE "none",
                        <<>>, Len(st1.alerts_mem))

\* get_logs with the volatile rows left in insertion order
get_logs_NoReverse(st, USE_DB, limit, env) ==
    LET attempt ==
            IF env.fail = "connect" THEN Raised(st)
            ELSE LET con == Connected(st) IN
                 IF env.fail = "select" \/ "logs" \notin con.db_tables \/ limit < 0
                 THEN Raised(con)
                 ELSE Returned(Closed(con), "durable", "ok",
                               DescLimit(con.db_logs, limit), 0)
    IN IF db_ok(USE_DB, env) /\ ~attempt.raised THEN attempt
       ELSE LET st1 == IF db_ok(USE_DB, env) THEN attempt.st ELSE st
            IN Returned(st1, "volatile",
                        IF db_ok(USE_DB, env) THEN "raised" ELSE "none",
                        PyLast(st1.logs_mem, limit), 0)

get_logs(st, USE_DB, limit, env) ==
    LET attempt ==
            IF env.fail = "connect" THEN Raised(st)
            ELSE LET con == Connected(st) IN
                 IF env.fail = "select" \/ "logs" \notin con.db_tables \/ limit < 0
                 THEN Raised(con)
                 ELSE Returned(Closed(con), "durable", "ok",
                               DescLimit(con.db_logs, limit), 0)
    IN IF db_ok(USE_DB, env) /\ ~attempt.raised THEN attempt
       ELSE LET st1 == IF db_ok(USE_DB, env) THEN attempt.st ELSE st
            IN Returned(st1, "volatile",
                        IF db_ok(USE_DB, env) THEN "raised" ELSE "none",
                        Reverse(PyLast(st1.logs_mem, limit)), 0)

-----------------------------------------------------------------------------
(* main.py: chat *)

\* the remote service is not called at all
NoRemote == [kind |-> "not_called", data |-> EmptyObject]

NoDecision == Decision(<<>>, "", FALSE, FALSE, NoSources)

\* ChatOut(reply=..., mood=..., alert=..., spark=..., sources=sources or [])
\* validates sources as Optional[List[dict]]
ChatOutValid(d) == d.sources.t = "list"

\* the think that main.py ends up with: brain.think, or the local fallback
\* when the import of brain failed
chat_think(cfg, msg, history, remote) ==
    IF cfg.brain
    THEN think(msg, history, cfg.USE_OPENAI, cfg.api_key, remote)
    ELSE main_think(msg, history)

\* chat storing the assistant turn before the user turn
chat_AssistantFirst(st, cfg, ts, message, memory, remote, e1, e2, e3, e4) ==
    LET NoWrites == [memory |-> <<>>, logs |-> <<>>]
        Fail(st1, d, asked) ==
            [st |-> st1, raised |-> TRUE, decision |-> d, history |-> <<>>,
             asked |-> asked]
        fetched == IF memory THEN memory_fetch(st, cfg.USE_DB, 8, e1)
                   ELSE Returned(st, "none", "none", <<>>, 0)
    IN
    IF fetched.raised THEN Fail(fetched.st, NoDecision, NoWrites)
    ELSE
    LET history == fetched.rows
        d       == chat_think(cfg, message, history, remote)
        turn1   == [role |-> "user", content |-> message]
        turn2   == [role |-> "assistant", content |-> d.reply]
        added1  == IF memory
                   THEN memory_add(fetched.st, cfg.USE_DB, ts, "assistant", d.reply, e2)
                   ELSE Returned(fetched.st, "none", "none", <<>>, 0)
    IN
    IF added1.raised
    THEN Fail(added1.st, NoDecision, [NoWrites EXCEPT !.memory = <<turn1>>])
    ELSE
    LET added2 == IF memory
                  THEN memory_add(added1.st, cfg.USE_DB, ts, "user", message, e3)
                  ELSE added1
        asked2 == IF memory THEN <<turn1, turn2>> ELSE <<>>
    IN
    IF added2.raised
    THEN Fail(added2.st, NoDecision, [NoWrites EXCEPT !.memory = asked2])
    ELSE
    LET logged == log_event(added2.st, cfg.USE_DB, ts, message, d.reply, d.mood,
                            d.alert, FALSE, e4)
        entry  == [ts |-> ts, mood |-> d.mood, message |-> message,
                   reply |-> d.reply, alert |-> d.alert, refused |-> FALSE]
        asked  == [memory |-> asked2, logs |-> <<entry>>]
    IN
    IF ~ChatOutValid(d) THEN Fail(logged.st, NoDecision, asked)
    ELSE [st |-> logged.st, raised |-> FALSE, decision |-> d,
          history |-> history, asked |-> asked]

\* chat storing the two turns whatever input.memory says
chat_AlwaysStores(st, cfg, ts, message, memory, remote, e1, e2, e3, e4) ==
    LET NoWrites == [memory |-> <<>>, logs |-> <<>>]
        Fail(st1, d, asked) ==
            [st |-> st1, raised |-> TRUE, decision |-> d, history |-> <<>>,
             asked |-> asked]
        fetched == IF memory THEN memory_fetch(st, cfg.USE_DB, 8, e1)
                   ELSE Returned(st, "none", "none", <<>>, 0)
    IN
    IF fetched.raised THEN Fail(fetched.st, NoDecision, NoWrites)
    ELSE
    LET history == fetched.rows
        d       == chat_think(cfg, message, history, remote)
        turn1   == [role |-> "user", content |-> message]
        turn2   == [role |-> "assistant", content |-> d.reply]
        added1  == memory_add(fetched.st, cfg.USE_DB, ts, "user", message, e2)
    IN
    IF added1.raised
    THEN Fail(added1.st, NoDecision, [NoWrites EXCEPT !.memory = <<turn1>>])
    ELSE
    LET added2 == memory_add(added1.st, cfg.USE_DB, ts, "assistant", d.reply, e3)
        asked2 == <<turn1, turn2>>
    IN
    IF added2.raised
    THEN Fail(added2.st, NoDecision, [NoWrites EXCEPT !.memory = asked2])
    ELSE
    LET logged == log_event(added2.st, cfg.USE_DB, ts, message, d.reply, d.mood,
                            d.alert, FALSE, e4)
        entry  == [ts |-> ts, mood |-> d.mood, message |-> message,
                   reply |-> d.reply, alert |-> d.alert, refused |-> FALSE]
        asked  == [memory |-> asked2, logs |-> <<entry>>]
    IN
    IF ~ChatOutValid(d) THEN Fail(logged.st, NoDecision, asked)
    ELSE [st |-> logged.st, raised |-> FALSE, decision |-> d,
          history |-> history, asked |-> asked]

\* one request to /chat; e1..e4 are what the database does during
\* memory_fetch, the two memory_add and log_event
chat(st, cfg, ts, message, memory, remote, e1, e2, e3, e4) ==
    LET NoWrites == [memory |-> <<>>, logs |-> <<>>]
        Fail(st1, d, asked) ==
            [st |-> st1, raised |-> TRUE, decision |-> d, history |-> <<>>,
             asked |-> asked]
        fetched == IF memory THEN memory_fetch(st, cfg.USE_DB, 8, e1)
                   ELSE Returned(st, "none", "none", <<>>, 0)
    IN
    IF fetched.raised THEN Fail(fetched.st, NoDecision, NoWrites)
    ELSE
    LET history == fetched.rows
        d       == chat_think(cfg, message, history, remote)
        turn1   == [role |-> "user", content |-> message]
        turn2   == [role |-> "assistant", content |-> d.reply]
        added1  == IF memory
                   THEN memory_add(fetched.st, cfg.USE_DB, ts, "user", message, e2)
                   ELSE Returned(fetched.st, "none", "none", <<>>, 0)
    IN
    IF added1.raised
    THEN Fail(added1.st, NoDecision, [NoWrites EXCEPT !.memory = <<turn1>>])
    ELSE
    LET added2 == IF memory
                  THEN memory_add(added1.st, cfg.USE_DB, ts, "assistant", d.reply, e3)
                  ELSE added1
        asked2 == IF memory THEN <<turn1, turn2>> ELSE <<>>
    IN
    IF added2.raised
    THEN Fail(added2.st, NoDecision, [NoWrites EXCEPT !.memory = asked2])
    ELSE
    LET logged == log_event(added2.st, cfg.USE_DB, ts, message, d.reply, d.mood,
                            d.alert, FALSE, e4)
        entry  == [ts |-> ts, mood |-> d.mood, message |-> message,
                   reply |-> d.reply, alert |-> d.alert, refused |-> FALSE]
        asked  == [memory |-> asked2, logs |-> <<entry>>]
    IN
    IF ~ChatOutValid(d) THEN Fail(logged.st, NoDecision, asked)
    ELSE [st |-> logged.st, raised |-> FALSE, decision |-> d,
          history |-> history, asked |-> asked]

-----------------------------------------------------------------------------
(* Spec: calls of the facade operations and of chat, one at a time *)

St ==
    [logs_mem |-> logs_mem, alerts_mem |-> alerts_mem, memory_mem |-> memory_mem,
     db_logs |-> db_logs, db_alerts |-> db_alerts, db_memory |-> db_memory,
     db_tables |-> db_tables, open_conns |-> open_conns]

SetStore(st) ==
    /\ logs_mem'   = st.logs_mem
    /\ alerts_mem' = st.alerts_mem
    /\ memory_mem' = st.memory_mem
    /\ db_logs'    = st.db_logs
    /\ db_alerts'  = st.db_alerts
    /\ db_memory'  = st.db_memory
    /\ db_tables'  = st.db_tables
    /\ open_conns' = st.open_conns

\* USE_DB: DATABASE_URL is set and psycopg2 was imported
\* brain: `from brain import think` succeeded
\* USE_OPENAI, api_key: the openai import succeeded, OPENAI_API_KEY is set
Configs ==
    { [USE_DB |-> u, brain |-> c[1], USE_OPENAI |-> c[2], api_key |-> c[2]] :
        u \in BOOLEAN,
        c \in {<<FALSE, FALSE>>, <<TRUE, FALSE>>, <<TRUE, TRUE>>} }

WriteEnvsOf(cfg) == IF cfg.USE_DB THEN WriteEnvs ELSE {DbDown}
ReadEnvsOf(cfg)  == IF cfg.USE_DB THEN ReadEnvs ELSE {DbDown}

\* the outcomes of the remote call tried by chat
ChatRemotes ==
    { RemoteRaise,
      RemoteObject([EmptyObject EXCEPT !.reply = JStr("Salut"), !.mood = JStr("good")]) }

RemotesOf(cfg) ==
    IF cfg.brain /\ cfg.USE_OPENAI /\ cfg.api_key THEN ChatRemotes ELSE {NoRemote}

ChatMessages ==
    { <<"m","i","n","e","u","r"," ","S","e","x","e"," ","?","!">>,
      <<"o","k"," ","?">> }

\* the message of the direct calls of log_event and memory_add
LogMessages == { <<"o","k">> }

Roles == {"user", "assistant"}

Limits == {0, 1, 8}

NoArgs ==
    [message |-> <<>>, reply |-> <<>>, mood |-> "", alert |-> FALSE,
     role |-> "", limit |-> 0, memory |-> FALSE, remote |-> NoRemote,
     env |-> DbDown]

NoCall ==
    [op |-> "none", args |-> NoArgs, raised |-> FALSE, served |-> "none",
     attempt |-> "none", rows |-> <<>>, count |-> 0, decision |-> NoDecision]

\* the record of a facade call with result r
Call(op, args, r) ==
    [op |-> op, args |-> args, raised |-> r.raised, served |-> r.served,
     attempt |-> r.attempt, rows |-> r.rows, count |-> r.count,
     decision |-> NoDecision]

\* the requests that worker threads may be running at the same time
Requests == {"a", "b"}

\* a request that has not arrived yet
IdleRequest ==
    [pc |-> "idle", message |-> <<>>, memory |-> FALSE, history |-> <<>>,
     decision |-> NoDecision, seen |-> 0]

InitStore ==
    /\ logs_mem = <<>> /\ alerts_mem = <<>> /\ memory_mem = <<>>
    /\ db_logs = <<>> /\ db_alerts = <<>> /\ db_memory = <<>>
    /\ db_tables = {} /\ open_conns = 0
    /\ clock = 0
    /\ chats = 0
    /\ last = NoCall
    /\ requested = [memory |-> <<>>, logs |-> <<>>]
    /\ reqs = [p \in Requests |-> IdleRequest]

IdleThink ==
    /\ user_message = <<>> /\ decision = NoDecision
    /\ think_in = [fn |-> "none", USE_OPENAI |-> FALSE, api_key |-> FALSE,
                   remote |-> NoRemote]

\* the facade operations do not look at the think configuration
FacadeConfigs == { c \in Configs : c.brain /\ ~c.USE_OPENAI }

Init ==
    /\ config \in FacadeConfigs
    /\ InitStore
    /\ IdleThink

InitChat ==
    /\ config \in Configs
    /\ InitStore
    /\ IdleThink

Tick ==
    /\ clock < MaxOps
    /\ clock' = clock + 1
    /\ UNCHANGED <<think_vars, config, chats, reqs>>

LogEvent ==
    /\ Tick
    /\ \E msg \in LogMessages, mood \in {"good", "alert"}, alert \in BOOLEAN,
          env \in WriteEnvsOf(config) :
        LET r == log_event(St, config.USE_DB, clock, msg, R_COMPRIS, mood, alert,
                           FALSE, env)
            entry == [ts |-> clock, mood |-> mood, message |-> msg,
                      reply |-> R_COMPRIS, alert |-> alert, refused |-> FALSE]
        IN /\ SetStore(r.st)
           /\ last' = Call("log_event",
                           [NoArgs EXCEPT !.message = msg, !.reply = R_COMPRIS,
                                          !.mood = mood, !.alert = alert,
                                          !.env = env], r)
           /\ requested' = [requested EXCEPT !.logs = Append(@, entry)]

MemoryAdd ==
    /\ Tick
    /\ \E role \in Roles, content \in LogMessages, env \in WriteEnvsOf(config) :
        LET r == memory_add(St, config.USE_DB, clock, role, content, env)
        IN /\ SetStore(r.st)
           /\ last' = Call("memory_add",
                           [NoArgs EXCEPT !.role = role, !.message = content,
                                          !.env = env], r)
           /\ requested' = [requested EXCEPT
                              !.memory = Append(@, [role |-> role,
                                                    content |-> content])]

MemoryFetch ==
    /\ Tick
    /\ \E limit \in Limits, env \in ReadEnvsOf(config) :
        LET r == memory_fetch(St, config.USE_DB, limit, env)
        IN /\ SetStore(r.st)
           /\ last' = Call("memory_fetch",
                           [NoArgs EXCEPT !.limit = limit, !.env = env], r)
           /\ UNCHANGED requested

GetAlerts ==
    /\ Tick
    /\ \E limit \in Limits, env \in ReadEnvsOf(config) :
        LET r == get_alerts(St, config.USE_DB, limit, env)
        IN /\ SetStore(r.st)
           /\ last' = Call("get_alerts",
                           [NoArgs EXCEPT !.limit = limit, !.env = env], r)
           /\ UNCHANGED requested

GetAlertsCount ==
    /\ Tick
    /\ \E env \in ReadEnvsOf(config) :
        LET r == get_alerts_count(St, config.USE_DB, env)
        IN /\ SetStore(r.st)
           /\ last' = Call("get_alerts_count", [NoArgs EXCEPT !.env = env], r)
           /\ UNCHANGED requested

GetLogs ==
    /\ Tick
    /\ \E limit \in Limits, env \in ReadEnvsOf(config) :
        LET r == get_logs(St, config.USE_DB, limit, env)
        IN /\ SetStore(r.st)
           /\ last' = Call("get_logs",
                           [NoArgs EXCEPT !.limit = limit, !.env = env], r)
           /\ UNCHANGED requested

\* What the database does during the calls of one request.  A call that is
\* not reached (memory is off, or an earlier call raised) sees no database:
\* its entry is DbDown.
ChatReadEnvs(cfg) ==
    IF cfg.USE_DB THEN {DbDown, [probe |-> TRUE, fail |-> "none"],
                        [probe |-> TRUE, fail |-> "select"]}
    ELSE {DbDown}

ChatWriteEnvs(cfg) ==
    IF cfg.USE_DB THEN {DbDown, [probe |-> TRUE, fail |-> "none"],
                        [probe |-> TRUE, fail |-> "commit"]}
    ELSE {DbDown}

WriteRaises(cfg, e) == db_ok(cfg.USE_DB, e) /\ e.fail # "none"

ChatEnvs(st, cfg, memory) ==
    LET W == ChatWriteEnvs(cfg)
        from3(e1, e2, e3) ==
            IF WriteRaises(cfg, e3) THEN { <<e1, e2, e3, DbDown>> }
            ELSE { <<e1, e2, e3, e4>> : e4 \in W }
        from2(e1, e2) ==
            IF WriteRaises(cfg, e2) THEN { <<e1, e2, DbDown, DbDown>> }
            ELSE UNION { from3(e1, e2, e3) : e3 \in W }
        from1(e1) ==
            IF memory_fetch(st, cfg.USE_DB, 8, e1).raised
            THEN { <<e1, DbDown, DbDown, DbDown>> }
            ELSE UNION { from2(e1, e2) : e2 \in W }
    IN IF memory
       THEN UNION { from1(e1) : e1 \in ChatReadEnvs(cfg) }
       ELSE { <<DbDown, DbDown, DbDown, e4>> : e4 \in W }

Chat ==
    /\ chats < MaxChats
    /\ chats' = chats + 1
    /\ clock' = clock + 1
    /\ UNCHANGED <<think_vars, config, reqs>>
    /\ \E message \in ChatMessages, memory \in BOOLEAN, remote \in RemotesOf(config) :
        \E r \in { chat(St, config, clock, message, memory, remote,
                         e[1], e[2], e[3], e[4]) : e \in ChatEnvs(St, config, memory) } :
           /\ SetStore(r.st)
           /\ last' = [op |-> "chat",
                       args |-> [NoArgs EXCEPT !.message = message,
                                               !.memory = memory,
                                               !.remote = remote],
                       raised |-> r.raised, served |-> "none", attempt |-> "none",
                       rows |-> r.history, count |-> 0, decision |-> r.decision]
           /\ requested' = [memory |-> requested.memory \o r.asked.memory,
                            logs   |-> requested.logs \o r.asked.logs]

Next ==
    \/ LogEvent
    \/ MemoryAdd
    \/ MemoryFetch
    \/ GetAlerts
    \/ GetAlertsCount
    \/ GetLogs

Spec == Init /\ [][Next]_vars

\* SpecChat: requests to /chat, one at a time
NextChat == Chat

SpecChat == InitChat /\ [][NextChat]_vars

-----------------------------------------------------------------------------
(* SpecMem: calls of memory_add that find no database *)

MemContents == { <<"o","k">>, <<"?">> }

\* the turns the n-th call of memory_add may be given
MemInputs(n) ==
    IF n < MemWarmup
    THEN { [role |-> IF n % 2 = 0 THEN "user" ELSE "assistant",
            content |-> <<ToString(n)>>] }
    ELSE { [role |-> r, content |-> c] : r \in Roles, c \in MemContents }

MemoryAddVolatile ==
    /\ clock < MaxAdds
    /\ clock' = clock + 1
    /\ UNCHANGED <<think_vars, config, chats, reqs>>
    /\ \E turn \in MemInputs(clock) :
        LET r == memory_add(St, config.USE_DB, clock, turn.role, turn.content, DbDown)
        IN /\ SetStore(r.st)
           /\ last' = Call("memory_add",
                           [NoArgs EXCEPT !.role = turn.role,
                                          !.message = turn.content], r)
           /\ requested' = [requested EXCEPT !.memory = Append(@, turn)]

NextMem == MemoryAddVolatile

SpecMem == Init /\ [][NextMem]_vars

-----------------------------------------------------------------------------
(* Inputs of think: texts built from tokens, remote outcomes *)

Tokens ==
    { <<"m","i","n","e","u","r">>,
      <<"S","e","x">>,
      <<"e","x","p","l","i","c","i","t">>,
      <<"?">>,
      <<"?","!">>,
      <<" ">>,
      <<"b","o","n","j","o","u","r">>,
      <<"m","e","r","c","i">>,
      <<"b","y","e">>,
      <<"c","a"," ","v","a">>,
      <<"o","k">> }

RECURSIVE TextsOf(_)
TextsOf(k) ==
    IF k = 0 THEN { <<>> }
    ELSE LET shorter == TextsOf(k - 1)
         IN shorter \cup { p \o t : p \in shorter, t \in Tokens }

Texts == TextsOf(MaxTokens)

PayloadObjects ==
    [reply   : {Missing, JStr("Salut")},
     mood    : {Missing, JNull, JStr("analyze"), JStr("alert"), JStr("angry")},
     alert   : {Missing, JBool(TRUE)},
     spark   : {Missing, JBool(FALSE)},
     sources : {Missing}]

Remotes ==
    {RemoteRaise, RemoteNotJson, RemoteNotObject}
    \cup { RemoteObject(d) : d \in PayloadObjects }

Histories ==
    { <<>>, <<[role |-> "user", content |-> <<"o","k">>]>> }

NoThink == [fn |-> "none", USE_OPENAI |-> FALSE, api_key |-> FALSE, remote |-> NoRemote]

-----------------------------------------------------------------------------
(* SpecThink: one call of think on any text *)

InitThink ==
    /\ user_message \in Texts
    /\ decision = NoDecision
    /\ think_in = NoThink
    /\ config = [USE_DB |-> FALSE, brain |-> TRUE, USE_OPENAI |-> FALSE,
                 api_key |-> FALSE]
    /\ InitStore

\* brain.think(user_message, history)
Think ==
    /\ think_in.fn = "none"
    /\ \E uo \in BOOLEAN, key \in BOOLEAN, history \in Histories :
         \E r \in (IF uo /\ key THEN Remotes ELSE {NoRemote}) :
            /\ decision' = think(user_message, history, uo, key, r)
            /\ think_in' = [fn |-> "think", USE_OPENAI |-> uo, api_key |-> key,
                            remote |-> r]
    /\ UNCHANGED <<user_message, main_vars>>

\* main.think(user_message, history), used when brain cannot be imported
MainThink ==
    /\ think_in.fn = "none"
    /\ \E history \in Histories :
            /\ decision' = main_think(user_message, history)
            /\ think_in' = [fn |-> "main_think", USE_OPENAI |-> FALSE,
                            api_key |-> FALSE, remote |-> NoRemote]
    /\ UNCHANGED <<user_message, main_vars>>

NextThink == Think \/ MainThink

SpecThink == InitThink /\ [][NextThink]_vars

-----------------------------------------------------------------------------
(* Properties of think (checked under SpecThink) *)

\* the path the recorded think call took
NoCapabilityPath ==
    think_in.fn = "think" /\ ~(think_in.USE_OPENAI /\ think_in.api_key)

RemoteFailedPath ==
    /\ think_in.fn = "think" /\ think_in.USE_OPENAI /\ think_in.api_key
    /\ think_in.remote.kind \in {"raise", "not_json", "not_object"}

RemoteOkPath ==
    /\ think_in.fn = "think" /\ think_in.USE_OPENAI /\ think_in.api_key
    /\ think_in.remote.kind = "object"

MainFallbackPath == think_in.fn = "main_think"

\* what a text contains, read off the text itself (case-insensitively)
HasMinorTerm(text)  == Contains(lower(text), T_mineur)
HasSexualTerm(text) == \E t \in {T_sex, T_sexe, T_explicit} : Contains(lower(text), t)
HasInsistent(text)  == Contains(text, T_qq) \/ Contains(text, T_qbang)
HasLexiconTerm(text) ==
    \E t \in Greetings \cup WellBeing \cup Thanks \cup Farewells :
        Contains(lower(text), t)
EndsInQuestion(text) == endswith(strip(text), T_q)

\* C6: a text with both a minor term and a sexual term gets mood=alert and
\* alert=true from the rule engine, whatever else it contains, on the
\* single-pass path and on both two-pass fallbacks.
C6_RefusalDominates ==
    (/\ NoCapabilityPath \/ RemoteFailedPath \/ MainFallbackPath
     /\ HasMinorTerm(user_message) /\ HasSexualTerm(user_message))
    => (decision.mood = "alert" /\ decision.alert = TRUE)

C6_Witness ==
    /\ RemoteFailedPath
    /\ HasMinorTerm(user_message) /\ HasSexualTerm(user_message)
    /\ HasInsistent(user_message)
    /\ decision.mood = "alert" /\ decision.alert = TRUE

\* C8 as stated: every text containing "??" or "?!" is classified
\* mood=notice, alert=true, spark=true by the single pass.
C8_AsStated ==
    (NoCapabilityPath /\ HasInsistent(user_message))
    => (decision.mood = "notice" /\ decision.alert = TRUE /\ decision.spark = TRUE)

\* C8 amended: every text containing "??" or "?!" that does not contain both
\* a minor term and a sexual term is classified mood=notice, alert=true,
\* spark=true by the single pass, also when it ends in a single "?".
C8_InsistentUnlessRefused ==
    (/\ NoCapabilityPath /\ HasInsistent(user_message)
     /\ ~(HasMinorTerm(user_message) /\ HasSexualTerm(user_message)))
    => (decision.mood = "notice" /\ decision.alert = TRUE /\ decision.spark = TRUE)

C8_Witness ==
    /\ NoCapabilityPath
    /\ Contains(user_message, T_qbang) /\ EndsInQuestion(user_message)
    /\ ~Contains(user_message, T_qq)
    /\ AnyIn(Greetings, lower(user_message))
    /\ decision.mood = "notice" /\ decision.alert = TRUE /\ decision.spark = TRUE

\* C9: in the single pass, a text ending in "?" (trimmed) with no "??"/"?!"
\* and no match of rules 1-6 gets mood=analyze, spark=true, alert=false and
\* no sources; a text matching none of rules 1-7 gets mood=good,
\* alert=false, spark=false.
C9_QuestionAndDefault ==
    (/\ NoCapabilityPath
     /\ ~(HasMinorTerm(user_message) /\ HasSexualTerm(user_message))
     /\ ~HasInsistent(user_message)
     /\ ~HasLexiconTerm(user_message))
    => IF EndsInQuestion(user_message)
       THEN /\ decision.mood = "analyze" /\ decision.spark = TRUE
            /\ decision.alert = FALSE /\ decision.sources = NoSources
       ELSE /\ decision.mood = "good" /\ decision.spark = FALSE
            /\ decision.alert = FALSE

C9_Witness ==
    /\ NoCapabilityPath
    /\ HasMinorTerm(user_message) /\ ~HasSexualTerm(user_message)
    /\ EndsInQuestion(user_message) /\ ~HasInsistent(user_message)
    /\ ~HasLexiconTerm(user_message)
    /\ decision.mood = "analyze" /\ decision.spark = TRUE

\* C10: every decision think returns has one of the seven moods, and a
\* remote payload whose mood is not one of them comes back with mood=done.
C10_MoodInEnum ==
    (think_in.fn = "think")
    => /\ decision.mood \in Moods
       /\ (/\ RemoteOkPath
           /\ think_in.remote.data.mood # Missing
           /\ ~(think_in.remote.data.mood.t = "str"
                /\ think_in.remote.data.mood.s \in Moods))
          => decision.mood = "done"

C10_Witness ==
    /\ RemoteOkPath
    /\ think_in.remote.data.mood = JStr("angry")
    /\ decision.mood = "done"

-----------------------------------------------------------------------------
(* Properties of the persistence facade (checked under Spec and SpecMem) *)

FacadeOps ==
    {"log_event", "memory_add", "memory_fetch", "get_alerts", "get_alerts_count",
     "get_logs"}

\* C1: every facade operation returns normally whatever the database does,
\* and a call whose durable attempt failed is served by the volatile store.
C1_FacadeNeverRaises ==
    (last.op \in FacadeOps)
    => /\ ~last.raised
       /\ (last.attempt = "raised" => last.served = "volatile")

\* C2: when the durable attempt of log_event raises (at connect, schema
\* creation, insert or commit), log_event returns normally, logs_mem has
\* grown by exactly one entry, and alerts_mem by one entry iff alert is true.
C2_LogEventFailOpen ==
    [][ (clock' # clock /\ last'.op = "log_event" /\ last'.attempt = "raised")
        => /\ ~last'.raised
           /\ Len(logs_mem') = Len(logs_mem) + 1
           /\ Len(alerts_mem') =
                Len(alerts_mem) + (IF last'.args.alert THEN 1 ELSE 0) ]_vars

C2_Witness ==
    /\ last.op = "log_event" /\ last.attempt = "raised"
    /\ last.args.env.fail = "commit" /\ last.args.alert
    /\ ~last.raised
    /\ Len(logs_mem) >= 1 /\ Len(alerts_mem) >= 1
    /\ db_logs = <<>>

Count(e, seq) == Cardinality({ i \in 1..Len(seq) : seq[i] = e })

AlertOf(entry) == [ts |-> entry.ts, mood |-> entry.mood, message |-> entry.message]

\* the alert entries that go with the log entries of a store, in order
AlertsOf(logs) ==
    LET alerting == SelectSeq(logs, LAMBDA e : e.alert)
    IN [i \in 1..Len(alerting) |-> AlertOf(alerting[i])]

DbTurns ==
    [i \in 1..Len(db_memory) |->
        [role |-> db_memory[i].role, content |-> db_memory[i].content]]

\* C3: every entry a facade write was asked to store (log, alert, memory) is
\* held by exactly one of the two backends.
C3_ExactlyOneBackend ==
    /\ \A i \in 1..Len(requested.memory) :
         LET e == requested.memory[i]
         IN Count(e, requested.memory) = Count(e, memory_mem) + Count(e, DbTurns)
    /\ \A i \in 1..Len(requested.logs) :
         LET e == requested.logs[i]
         IN /\ Count(e, requested.logs) = Count(e, logs_mem) + Count(e, db_logs)
            /\ e.alert =>
                 Count(AlertOf(e), AlertsOf(requested.logs))
                   = Count(AlertOf(e), alerts_mem) + Count(AlertOf(e), db_alerts)

LastN(seq, k) == SubSeq(seq, Len(seq) - k + 1, Len(seq))

\* C4: after any sequence of volatile-backed memory_add calls, memory_mem
\* holds at most 50 entries, and they are the min(n, 50) most recently added
\* ones in the order they were added.
C4_VolatileMemoryBound ==
    LET n == Len(requested.memory)
    IN /\ Len(memory_mem) <= 50
       /\ memory_mem = LastN(requested.memory, IF n < 50 THEN n ELSE 50)

C4_Witness ==
    /\ Len(requested.memory) = 52
    /\ Len(memory_mem) = 50
    /\ memory_mem[1] = requested.memory[3]
    /\ memory_mem[50].content \in MemContents

\* C5: in each backend the alert entries are the log entries with alert=true,
\* projected, in the same order; count_alerts is the number of such log
\* entries of the backend that served it.
C5_AlertsAreProjection ==
    /\ alerts_mem = AlertsOf(logs_mem)
    /\ db_alerts = AlertsOf(db_logs)
    /\ (last.op = "get_alerts_count" /\ ~last.raised)
       => last.count = Len(AlertsOf(IF last.served = "durable"
                                    THEN db_logs ELSE logs_mem))

C5_Witness ==
    /\ last.op = "get_alerts_count" /\ ~last.raised
    /\ last.count = 1
    /\ \/ last.served = "durable" /\ Len(db_logs) = 2
       \/ last.served = "volatile" /\ Len(logs_mem) = 2 /\ last.attempt = "raised"

-----------------------------------------------------------------------------
(* Properties of chat (checked under SpecChat) *)

ChatReturned == last.op = "chat" /\ ~last.raised

\* C7 as stated: a message with a minor+sexual combination gets mood=alert
\* and alert=true from chat on every derivation path.
C7_AsStated ==
    (/\ ChatReturned
     /\ HasMinorTerm(last.args.message) /\ HasSexualTerm(last.args.message))
    => (last.decision.mood = "alert" /\ last.decision.alert = TRUE)

\* C7 amended: a message with a minor+sexual combination gets mood=alert and
\* alert=true from chat, whatever the history, when the decision comes from
\* the rules: no remote capability, or the remote call failing.
C7_RefusalOnRulePaths ==
    (/\ ChatReturned
     /\ HasMinorTerm(last.args.message) /\ HasSexualTerm(last.args.message)
     /\ last.args.remote.kind # "object")
    => (last.decision.mood = "alert" /\ last.decision.alert = TRUE)

C7_Witness ==
    /\ ChatReturned
    /\ HasMinorTerm(last.args.message) /\ HasSexualTerm(last.args.message)
    /\ last.args.remote.kind = "raise"
    /\ last.rows # <<>>
    /\ last.decision.mood = "alert" /\ last.decision.alert = TRUE

-----------------------------------------------------------------------------
(* Properties of the read operations (checked under Spec) *)

Min(a, b) == IF a < b THEN a ELSE b

\* C11: on the volatile store, memory_fetch(limit) with limit >= 0 returns
\* the min(limit, n) most recent retained entries, in insertion order.
C11_VolatileFetchTail ==
    (/\ last.op = "memory_fetch" /\ ~last.raised /\ last.served = "volatile"
     /\ last.args.limit >= 0)
    => last.rows = LastN(memory_mem, Min(last.args.limit, Len(memory_mem)))

-----------------------------------------------------------------------------
(* Properties of a chat turn (checked under SpecChat) *)

IsPrefix(s, t) == Len(s) <= Len(t) /\ SubSeq(t, 1, Len(s)) = s

LogsAppendOnly ==
    /\ IsPrefix(logs_mem, logs_mem') /\ IsPrefix(db_logs, db_logs')
    /\ IsPrefix(alerts_mem, alerts_mem') /\ IsPrefix(db_alerts, db_alerts')

ChatTurn == chats' = chats + 1

\* C12: every chat turn appends exactly one log entry, and the log and
\* alert sequences of each store only grow at the end (the earlier sequence
\* is a prefix of the later one).
C12_OneLogPerTurn ==
    [][ChatTurn =>
          /\ Len(logs_mem') + Len(db_logs') = Len(logs_mem) + Len(db_logs) + 1
          /\ LogsAppendOnly]_vars

-----------------------------------------------------------------------------
(* SpecNorm: think with the remote capability, on any payload, applied
   again to the payload form of its own decision *)

\* the JSON object that states a decision: {"reply": ..., "mood": ...,
\* "alert": ..., "spark": ..., "sources": ...}
ToRaw(d) ==
    [reply |-> JStr(d.reply[1]), mood |-> JStr(d.mood), alert |-> JBool(d.alert),
     spark |-> JBool(d.spark), sources |-> d.sources]

ASource == JList(<<"doc">>)

ValidDecisions ==
    { Decision(<<r>>, m, a, s, src) :
        r \in {"Salut", ""}, m \in Moods, a \in BOOLEAN, s \in BOOLEAN,
        src \in {NoSources, ASource} }

NormPayloads ==
    [reply   : {Missing, JNull, JStr("Salut")},
     mood    : {Missing, JNull, JStr("analyze"), JStr("good"), JStr("angry")},
     alert   : {Missing, JNull, JBool(TRUE), JStr("false")},
     spark   : {Missing, JNull, JBool(FALSE), JBool(TRUE)},
     sources : {Missing, JNull, JStr("x"), ASource}]

NormRemotes ==
    {RemoteNotObject}
    \cup { RemoteObject(p) : p \in NormPayloads }
    \cup { RemoteObject(ToRaw(d)) : d \in ValidDecisions }

InitNorm ==
    /\ user_message \in ChatMessages
    /\ decision = NoDecision
    /\ think_in = NoThink
    /\ config = [USE_DB |-> FALSE, brain |-> TRUE, USE_OPENAI |-> TRUE,
                 api_key |-> TRUE]
    /\ InitStore

\* brain.think(user_message, []) with the remote service answering r
ThinkRemote ==
    /\ think_in.fn = "none"
    /\ \E r \in NormRemotes :
         /\ decision' = think(user_message, <<>>, TRUE, TRUE, r)
         /\ think_in' = [fn |-> "think", USE_OPENAI |-> TRUE, api_key |-> TRUE,
                         remote |-> r]
    /\ UNCHANGED <<user_message, main_vars>>

\* brain.think again, the remote service answering the decision just made
ThinkAgain ==
    /\ think_in.fn = "think"
    /\ LET r == RemoteObject(ToRaw(decision))
       IN /\ decision' = think(user_message, <<>>, TRUE, TRUE, r)
          /\ think_in' = [think_in EXCEPT !.remote = r]
    /\ UNCHANGED <<user_message, main_vars>>

NextNorm == ThinkRemote \/ ThinkAgain

SpecNorm == InitNorm /\ [][NextNorm]_vars

-----------------------------------------------------------------------------
(* Properties of the normalisation (checked under SpecNorm) *)

RawDecisions == { ToRaw(d) : d \in ValidDecisions }

\* C13: normalising the payload form of a valid decision d returns d, and
\* normalising the payload form of a normalised decision changes nothing.
C13_NormalizeRoundTrip ==
    [][/\ (think_in'.remote.kind = "object" /\ think_in'.remote.data \in RawDecisions)
            => ToRaw(decision') = think_in'.remote.data
       /\ think_in.fn = "think" => decision' = decision]_vars

C13_Witness ==
    /\ think_in.fn = "think" /\ think_in.remote.kind = "object"
    /\ think_in.remote.data \in RawDecisions
    /\ think_in.remote.data = ToRaw(decision)
    /\ decision.mood = "analyze" /\ ~decision.spark
    /\ decision.sources = ASource /\ decision.reply = <<"">>

-----------------------------------------------------------------------------
(* The two rule sets of think compared (checked under SpecThink) *)

\* what think returns for a text when there is no remote capability
SinglePassDecision(text) == think(text, <<>>, FALSE, FALSE, NoRemote)

\* the texts on which the two rule sets cannot tell each other apart: a
\* refusal without "??", "?!" or a final "?", and, short of a refusal,
\* either an insistent text or one without a term of the four lexicons
SameRuleCase(text) ==
    IF HasMinorTerm(text) /\ HasSexualTerm(text)
    THEN ~HasInsistent(text) /\ ~EndsInQuestion(text)
    ELSE HasInsistent(text) \/ ~HasLexiconTerm(text)

\* C14 as stated: for every message the two-pass fallback, taken when the
\* remote call fails, returns the decision of the single pass.
C14_AsStated ==
    RemoteFailedPath => decision = SinglePassDecision(user_message)

\* C14 amended: the two-pass fallback returns the decision of the single
\* pass exactly on the texts of SameRuleCase; on a refusal with "??", "?!"
\* or a final "?", and on a text with a greeting, well-being, thanks or
\* farewell term that is neither a refusal nor insistent, the two differ.
C14_SameOutsideOverrides ==
    RemoteFailedPath =>
        (decision = SinglePassDecision(user_message) <=> SameRuleCase(user_message))

C14_Witness ==
    /\ RemoteFailedPath
    /\ SameRuleCase(user_message) /\ EndsInQuestion(user_message)
    /\ decision = SinglePassDecision(user_message)
    /\ decision.mood = "analyze"

-----------------------------------------------------------------------------
(* Connections of the durable store (checked under Spec) *)

\* C15: every durable operation closes the connection it opened on every
\* path, a raising statement or commit included: between operations no
\* connection is open.
C15_NoConnectionLeftOpen == open_conns = 0

-----------------------------------------------------------------------------
(* Order of the rows of get_logs (checked under Spec) *)

GotLogs == last.op = "get_logs" /\ ~last.raised

\* the log entries of the store that served the last call
LogsServed == IF last.served = "durable" THEN db_logs ELSE logs_mem

-----------------------------------------------------------------------------
(* Missing and malformed fields of the payload (checked under SpecNorm) *)

Payload == think_in.remote.data

JsonPayload ==
    think_in.fn = "think" /\ think_in.remote.kind \in {"object", "not_object"}

\* a field that is absent, or present with a value of the wrong type
MissingOrMalformed(field) ==
    \/ think_in.remote.kind = "not_object"
    \/ Payload[field] = Missing
    \/ CASE field = "reply"   -> Payload[field].t # "str"
         [] field = "mood"    -> Payload[field].t # "str" \/ Payload[field].s \notin Moods
         [] field = "alert"   -> Payload[field].t # "bool"
         [] field = "spark"   -> Payload[field].t # "bool"
         [] field = "sources" -> Payload[field].t # "list"

-----------------------------------------------------------------------------
(* SpecConc: requests to /chat running in worker threads at the same time,
   without a database.  chat is a plain def, so each request runs in its own
   thread; one step is one access to a module-level list. *)

ConcConfig ==
    [USE_DB |-> FALSE, brain |-> TRUE, USE_OPENAI |-> FALSE, api_key |-> FALSE]

InitConc ==
    /\ config = ConcConfig
    /\ InitStore
    /\ IdleThink

SetReq(p, r) == reqs' = [reqs EXCEPT ![p] = r]

ConcFrame == UNCHANGED <<think_vars, config, clock, chats, last>>

\* memory_add called before any request has arrived
WarmupAdd ==
    /\ clock < ConcWarmup
    /\ \A p \in Requests : reqs[p].pc = "idle"
    /\ clock' = clock + 1
    /\ UNCHANGED <<think_vars, config, chats, last, reqs>>
    /\ LET turn == [role |-> IF clock % 2 = 0 THEN "user" ELSE "assistant",
                    content |-> <<ToString(clock)>>]
           r == memory_add(St, config.USE_DB, clock, turn.role, turn.content, DbDown)
       IN /\ SetStore(r.st)
          /\ requested' = [requested EXCEPT !.memory = Append(@, turn)]

\* a request arrives: chat(input)
ReqStart(p) ==
    /\ reqs[p].pc = "idle"
    /\ \E message \in ChatMessages, memory \in BOOLEAN :
         SetReq(p, [reqs[p] EXCEPT !.pc = "fetch", !.message = message,
                                   !.memory = memory])
    /\ ConcFrame
    /\ UNCHANGED <<store_vars, requested>>

\* history = memory_fetch(8) if input.memory else []
ReqFetch(p) ==
    /\ reqs[p].pc = "fetch"
    /\ LET r == memory_fetch(St, config.USE_DB, 8, DbDown)
       IN SetReq(p, [reqs[p] EXCEPT
                        !.pc = "think",
                        !.history = IF reqs[p].memory THEN r.rows ELSE <<>>,
                        !.seen = IF reqs[p].memory THEN Len(memory_mem) ELSE 0])
    /\ ConcFrame
    /\ UNCHANGED <<store_vars, requested>>

\* reply, mood, alert, spark, sources = think(input.message, history)
ReqThink(p) ==
    /\ reqs[p].pc = "think"
    /\ SetReq(p, [reqs[p] EXCEPT
                     !.pc = IF reqs[p].memory THEN "add_user" ELSE "log",
                     !.decision = chat_think(config, reqs[p].message,
                                             reqs[p].history, NoRemote)])
    /\ ConcFrame
    /\ UNCHANGED <<store_vars, requested>>

\* memory_add: memory_mem.append({"role": role, "content": content})
ReqAppend(p) ==
    /\ reqs[p].pc \in {"add_user", "add_assistant"}
    /\ LET turn == IF reqs[p].pc = "add_user"
                   THEN [role |-> "user", content |-> reqs[p].message]
                   ELSE [role |-> "assistant", content |-> reqs[p].decision.reply]
       IN /\ memory_mem' = Append(memory_mem, turn)
          /\ requested' = [requested EXCEPT !.memory = Append(@, turn)]
    /\ SetReq(p, [reqs[p] EXCEPT !.pc = IF reqs[p].pc = "add_user"
                                        THEN "check_user" ELSE "check_assistant"])
    /\ ConcFrame
    /\ UNCHANGED <<logs_mem, alerts_mem, db_logs, db_alerts, db_memory,
                   db_tables, open_conns>>

AfterAdd(pc) == IF pc \in {"check_user", "pop_user"} THEN "add_assistant" ELSE "log"

\* memory_add: if len(memory_mem) > 50
ReqCheck(p) ==
    /\ reqs[p].pc \in {"check_user", "check_assistant"}
    /\ SetReq(p, [reqs[p] EXCEPT
                     !.pc = IF Len(memory_mem) > MEMORY_CAP
                            THEN (IF reqs[p].pc = "check_user"
                                  THEN "pop_user" ELSE "pop_assistant")
                            ELSE AfterAdd(reqs[p].pc)])
    /\ ConcFrame
    /\ UNCHANGED <<store_vars, requested>>

\* memory_add: memory_mem.pop(0)
ReqPop(p) ==
    /\ reqs[p].pc \in {"pop_user", "pop_assistant"}
    /\ memory_mem' = Tail(memory_mem)
    /\ SetReq(p, [reqs[p] EXCEPT !.pc = AfterAdd(reqs[p].pc)])
    /\ ConcFrame
    /\ UNCHANGED <<logs_mem, alerts_mem, db_logs, db_alerts, db_memory,
                   db_tables, open_conns, requested>>

\* log_event(input.message, reply, mood, alert, refused=False), and return
ReqLog(p) ==
    /\ reqs[p].pc = "log"
    /\ LET d == reqs[p].decision
           r == log_event(St, config.USE_DB, clock, reqs[p].message, d.reply,
                          d.mood, d.alert, FALSE, DbDown)
           entry == [ts |-> clock, mood |-> d.mood, message |-> reqs[p].message,
                     reply |-> d.reply, alert |-> d.alert, refused |-> FALSE]
       IN /\ SetStore(r.st)
          /\ requested' = [requested EXCEPT !.logs = Append(@, entry)]
    /\ SetReq(p, [reqs[p] EXCEPT !.pc = "done"])
    /\ ConcFrame

NextConc ==
    \/ WarmupAdd
    \/ \E p \in Requests : ReqStart(p)
    \/ \E p \in Requests : ReqFetch(p)
    \/ \E p \in Requests : ReqThink(p)
    \/ \E p \in Requests : ReqAppend(p)
    \/ \E p \in Requests : ReqCheck(p)
    \/ \E p \in Requests : ReqPop(p)
    \/ \E p \in Requests : ReqLog(p)

SpecConc == InitConc /\ [][NextConc]_vars

-----------------------------------------------------------------------------
(* Properties of concurrent requests (checked under SpecConc) *)

Quiescent == \A p \in Requests : reqs[p].pc \in {"idle", "done"}

\* C18: with requests running concurrently on the volatile store, no
\* request reads memory_mem between another request's append and its
\* eviction, when it holds more than 50 entries; no memory_fetch returns
\* more than 50 entries; and once the requests are finished the retained
\* entries are the 50 most recently appended.
C18_NoTornMemory ==
    /\ \A p \in Requests :
          reqs[p].seen <= MEMORY_CAP /\ Len(reqs[p].history) <= MEMORY_CAP
    /\ Quiescent =>
          memory_mem = LastN(requested.memory,
                             Min(MEMORY_CAP, Len(requested.memory)))

-----------------------------------------------------------------------------
(* Order of the steps of a chat turn (checked under SpecChat) *)

\* the turn returned to its caller, with memory on
MemoryTurn == ChatTurn /\ ~last'.raised /\ last'.args.memory

\* what memory_fetch(8) finds in a store before the turn writes anything
Before(turns) == LastN(turns, Min(8, Len(turns)))

\* C19: in a chat turn with memory on, the history handed to think is read
\* before the turn writes, so it holds none of the turn's entries; the turn
\* asks for its user entry, then its assistant entry, then its log entry;
\* and when the writes go to the volatile store, memory_mem ends with the
\* user entry followed by the assistant entry of the turn.
C19_FetchThenWrite ==
    [][MemoryTurn =>
        LET user      == [role |-> "user", content |-> last'.args.message]
            assistant == [role |-> "assistant", content |-> last'.decision.reply]
        IN /\ last'.rows \in {Before(memory_mem), Before(DbTurns)}
           /\ requested'.memory = requested.memory \o <<user, assistant>>
           /\ Len(requested'.logs) = Len(requested.logs) + 1
           /\ db_memory' = db_memory
                => /\ Len(memory_mem') >= 2
                   /\ LastN(memory_mem', 2) = <<user, assistant>>]_vars

C19_Witness ==
    /\ ChatReturned /\ last.args.memory
    /\ Len(memory_mem) = 4 /\ db_memory = <<>>
    /\ last.rows = SubSeq(memory_mem, 1, 2)
    /\ memory_mem[3] = [role |-> "user", content |-> last.args.message]
    /\ memory_mem[4] = [role |-> "assistant", content |-> last.decision.reply]
    /\ memory_mem[1].content # last.args.message


\* C20: a chat turn with memory off hands think an empty history, asks for
\* no memory entry and leaves the memory of both stores as it was, and
\* still appends exactly one log entry.
C20_MemoryOffTurn ==
    [][(ChatTurn /\ ~last'.args.memory) =>
          /\ last'.rows = <<>>
          /\ memory_mem' = memory_mem /\ db_memory' = db_memory
          /\ requested'.memory = requested.memory
          /\ Len(requested'.logs) = Len(requested.logs) + 1
          /\ Len(logs_mem') + Len(db_logs') = Len(logs_mem) + Len(db_logs) + 1
          /\ LogsAppendOnly]_vars

C20_Witness ==
    /\ last.op = "chat" /\ ~last.args.memory /\ ~last.raised
    /\ last.rows = <<>>
    /\ Len(memory_mem) + Len(db_memory) = 2
    /\ Len(logs_mem) + Len(db_logs) = 2

====
